---- MODULE Spec2Model ----
(***************************************************************************)
(* Model of the WeCare store: the product catalog (in-memory map mirrored  *)
(* to products.json), the customer wallets and their ledger, the admin     *)
(* wallet, the sales and transaction logs, and the purchase and restock    *)
(* request handlers of app.py.                                             *)
(*                                                                         *)
(* Money is modelled in whole rupees.  Of the clock only the time elapsed  *)
(* since _last_update_time is kept, as one of three classes: 0 is less     *)
(* than 0.5 s, 1 is at least 0.5 s and less than 2 s, 2 is 2 s or more.    *)
(* A request handler runs within one class.  The JSON stores other than    *)
(* products.json are taken to be readable and writable.  A write of a      *)
(* receipt file may fail.  A save of products.json may fail before the     *)
(* file is opened, which leaves the file as it was, or while the catalog   *)
(* is being written to the file opened for writing, which leaves it torn:  *)
(* no product record can be read from it and a load of it fails.           *)
(*                                                                         *)
(* Spec, CatalogSpec, AccountSpec, DelistSpec and TierSpec run requests    *)
(* one at a time, each handler as one step.  StockRaceSpec and             *)
(* PurchaseRaceSpec run two request threads statement by statement, with   *)
(* time passing between any two steps.                                     *)
(***************************************************************************)
EXTENDS Integers, Sequences, FiniteSets, TLC

-----------------------------------------------------------------------------
(* Bounds *)

MaxOps == 2
MaxLines == 2
MaxPoints == 2100

-----------------------------------------------------------------------------
(* Program constants: the two reload thresholds as the first class of     *)
(* elapsed time that reaches them, and the seed balances in rupees         *)

UpdateInterval == 2
MinReloadGap == 1
WalletBonus == 10000
AdminStartBalance == 50000

-----------------------------------------------------------------------------
(* Input domains *)

CustomerIds == {1, 2}
PurchaseQtys == {6}
RestockQtys == {10, 60}
WalletAmounts == {5000}

Letters == {"a", "b"}

Emails == [1..2 -> [letter : Letters, upper : BOOLEAN]]

Passwords == {"pw1", "pw2"}

InitialCustomers ==
    [c \in CustomerIds |->
        [email |-> [i \in 1..2 |-> [letter |-> IF c = 1 THEN "a" ELSE "b",
                                     upper |-> FALSE]],
         password |-> <<"sha256", "pw1">>,
         total_spent |-> 0, purchase_count |-> 0, points |-> 0]]

InitialCatalog ==
    (1 :> [id |-> 1, stock |-> 10, cost |-> 100,  price |-> 200,  is_active |-> TRUE]) @@
    (2 :> [id |-> 2, stock |-> 7,  cost |-> 1000, price |-> 2000, is_active |-> TRUE])

FormProductIds == DOMAIN InitialCatalog \cup {9}

Threads == {1, 2}

LineSeqs(Q) ==
    UNION { [1..n -> [pid : FormProductIds, qty : Q]] : n \in 0..MaxLines }

-----------------------------------------------------------------------------
VARIABLES
    products,               \* read_ops.products: the in-memory catalog
    products_file,          \* database/products.json: the records it holds
    products_file_torn,     \* products.json was left half-written
    since_update,           \* class of time elapsed since read_ops._last_update_time
    customers,              \* database/customers.json
    wallets,                \* database/wallets.json
    customer_transactions,  \* database/customer_transactions.json
    admin_wallet,           \* database/admin_wallet.json
    sales,                  \* database/sales.json
    transactions,           \* database/transactions.json
    purchase_invoices,      \* receipts written to invoices/purchase_database
    restock_invoices,       \* receipts written to invoices/restock_database
    nOps,                   \* number of POST requests handled so far
    last,                   \* the request handled last and what it reported
    before,                 \* the stores as that request found them
    products_lock,          \* read_ops.products_lock: the thread holding it, or 0
    threads                 \* requests being served concurrently: position and locals

vars == <<products, products_file, products_file_torn, since_update, customers, wallets,
          customer_transactions, admin_wallet, sales, transactions,
          purchase_invoices, restock_invoices, nOps, last, before,
          products_lock, threads>>

-----------------------------------------------------------------------------
(* Catalog store: read_ops.py.  A catalog value c has the fields mem       *)
(* (products), file and torn (products.json) and since (since_update).     *)
(* A save is given the way it fails: "none", "open" or "write".            *)

SaveFailures == {"open", "write"}

Abs(x) == IF x < 0 THEN -x ELSE x

load_products(c, force) ==
    IF ~force /\ c.since < UpdateInterval
    THEN [cat |-> c, ok |-> TRUE]
    ELSE IF c.since < MinReloadGap
    THEN [cat |-> c, ok |-> TRUE]
    ELSE IF c.torn
    THEN [cat |-> c, ok |-> FALSE]
    ELSE [cat |-> [c EXCEPT !.mem = c.file, !.since = 0], ok |-> TRUE]

save_products(c, fail) ==
    IF fail = "open"
    THEN [cat |-> c, ok |-> FALSE]
    ELSE IF fail = "write"
    THEN [cat |-> [c EXCEPT !.file = <<>>, !.torn = TRUE], ok |-> FALSE]
    ELSE LET written == [mem |-> c.mem, file |-> c.mem, torn |-> FALSE,
                         since |-> 0]
         IN  [cat |-> load_products(written, TRUE).cat, ok |-> TRUE]

update_product_stock_unguarded(c, product_id, quantity_change, fail) ==
    LET l == load_products(c, TRUE) IN
    IF ~l.ok
    THEN [cat |-> l.cat, success |-> FALSE, error |-> "load_failed",
          old_stock |-> 0, new_stock |-> 0]
    ELSE IF product_id \notin DOMAIN l.cat.mem
    THEN [cat |-> l.cat, success |-> FALSE, error |-> "not_found",
          old_stock |-> 0, new_stock |-> 0]
    ELSE LET old_stock == l.cat.mem[product_id].stock
             new_stock == old_stock + quantity_change
             edited == [l.cat EXCEPT !.mem[product_id].stock = new_stock]
             s == save_products(edited, fail)
         IN  IF s.ok
             THEN [cat |-> s.cat, success |-> TRUE, error |-> "",
                   old_stock |-> old_stock, new_stock |-> new_stock]
             ELSE [cat |-> [s.cat EXCEPT !.mem[product_id].stock = old_stock],
                   success |-> FALSE, error |-> "save_failed",
                   old_stock |-> old_stock, new_stock |-> old_stock]

update_product_stock_keeps_edit(c, product_id, quantity_change, fail) ==
    LET l == load_products(c, TRUE) IN
    IF ~l.ok
    THEN [cat |-> l.cat, success |-> FALSE, error |-> "load_failed",
          old_stock |-> 0, new_stock |-> 0]
    ELSE IF product_id \notin DOMAIN l.cat.mem
    THEN [cat |-> l.cat, success |-> FALSE, error |-> "not_found",
          old_stock |-> 0, new_stock |-> 0]
    ELSE LET old_stock == l.cat.mem[product_id].stock
             new_stock == old_stock + quantity_change
         IN  IF new_stock < 0
             THEN [cat |-> l.cat, success |-> FALSE, error |-> "insufficient_stock",
                   old_stock |-> old_stock, new_stock |-> old_stock]
             ELSE LET edited == [l.cat EXCEPT !.mem[product_id].stock = new_stock]
                      s == save_products(edited, fail)
                  IN  IF s.ok
                      THEN [cat |-> s.cat, success |-> TRUE, error |-> "",
                            old_stock |-> old_stock, new_stock |-> new_stock]
                      ELSE [cat |-> s.cat,
                            success |-> FALSE, error |-> "save_failed",
                            old_stock |-> old_stock, new_stock |-> old_stock]

update_product_stock(c, product_id, quantity_change, fail) ==
    LET l == load_products(c, TRUE) IN
    IF ~l.ok
    THEN [cat |-> l.cat, success |-> FALSE, error |-> "load_failed",
          old_stock |-> 0, new_stock |-> 0]
    ELSE IF product_id \notin DOMAIN l.cat.mem
    THEN [cat |-> l.cat, success |-> FALSE, error |-> "not_found",
          old_stock |-> 0, new_stock |-> 0]
    ELSE LET old_stock == l.cat.mem[product_id].stock
             new_stock == old_stock + quantity_change
         IN  IF new_stock < 0
             THEN [cat |-> l.cat, success |-> FALSE, error |-> "insufficient_stock",
                   old_stock |-> old_stock, new_stock |-> old_stock]
             ELSE LET edited == [l.cat EXCEPT !.mem[product_id].stock = new_stock]
                      s == save_products(edited, fail)
                  IN  IF s.ok
                      THEN [cat |-> s.cat, success |-> TRUE, error |-> "",
                            old_stock |-> old_stock, new_stock |-> new_stock]
                      ELSE [cat |-> [s.cat EXCEPT !.mem[product_id].stock = old_stock],
                            success |-> FALSE, error |-> "save_failed",
                            old_stock |-> old_stock, new_stock |-> old_stock]

get_next_product_id(mem) ==
    IF DOMAIN mem = {}
    THEN 1
    ELSE LET ids == DOMAIN mem \cup {0}
             max_id == CHOOSE m \in ids : \A p \in ids : p <= m
         IN  max_id + 1

(* product_data of add_product carries the stock and the cost of the form. *)
add_product(c, product_data, fail) ==
    LET l == load_products(c, TRUE)
        product_id == get_next_product_id(l.cat.mem)
        record == [id |-> product_id, stock |-> product_data.stock,
                   cost |-> product_data.cost, price |-> product_data.cost * 2,
                   is_active |-> TRUE]
        added == [l.cat EXCEPT !.mem = (product_id :> record) @@ l.cat.mem]
        s == save_products(added, fail)
    IN  IF s.ok
        THEN [cat |-> s.cat, success |-> TRUE, product_id |-> product_id,
              error |-> ""]
        ELSE [cat |-> [s.cat EXCEPT !.mem = [p \in DOMAIN s.cat.mem \ {product_id}
                                               |-> s.cat.mem[p]]],
              success |-> FALSE, product_id |-> 0, error |-> "save_failed"]

(* The time a failed save took: slow when at least 0.5 s have passed since *)
(* _last_update_time by the time the handler reloads the catalog.          *)
after_failed_save(c, slow) ==
    IF slow /\ c.since < MinReloadGap THEN [c EXCEPT !.since = MinReloadGap] ELSE c

(* product_data of update_product is a record of any of the fields of a    *)
(* product; each field it has replaces the product's.                      *)
merge_fields(product, product_data) ==
    LET value(key) == IF key \in DOMAIN product_data THEN product_data[key]
                      ELSE product[key]
    IN  [id |-> value("id"), stock |-> value("stock"), cost |-> value("cost"),
         price |-> value("price"), is_active |-> value("is_active")]

update_product_keeps_price(c, product_id, product_data, fail, slow) ==
    LET l == load_products(c, TRUE) IN
    IF product_id \notin DOMAIN l.cat.mem
    THEN [cat |-> l.cat, success |-> FALSE, error |-> "not_found"]
    ELSE LET product == merge_fields(l.cat.mem[product_id], product_data)
             edited == [l.cat EXCEPT !.mem[product_id] = product]
             s == save_products(edited, fail)
         IN  IF s.ok
             THEN [cat |-> s.cat, success |-> TRUE, error |-> ""]
             ELSE [cat |-> load_products(after_failed_save(s.cat, slow), TRUE).cat,
                   success |-> FALSE, error |-> "save_failed"]

update_product(c, product_id, product_data, fail, slow) ==
    LET l == load_products(c, TRUE) IN
    IF product_id \notin DOMAIN l.cat.mem
    THEN [cat |-> l.cat, success |-> FALSE, error |-> "not_found"]
    ELSE LET merged == merge_fields(l.cat.mem[product_id], product_data)
             product == IF "cost" \in DOMAIN product_data
                        THEN [merged EXCEPT !.price = product_data.cost * 2]
                        ELSE merged
             edited == [l.cat EXCEPT !.mem[product_id] = product]
             s == save_products(edited, fail)
         IN  IF s.ok
             THEN [cat |-> s.cat, success |-> TRUE, error |-> ""]
             ELSE [cat |-> load_products(after_failed_save(s.cat, slow), TRUE).cat,
                   success |-> FALSE, error |-> "save_failed"]

delete_product(c, product_id, fail, slow) ==
    LET l == load_products(c, TRUE) IN
    IF product_id \notin DOMAIN l.cat.mem
    THEN [cat |-> l.cat, success |-> FALSE, error |-> "not_found"]
    ELSE LET edited == [l.cat EXCEPT !.mem[product_id].is_active = FALSE]
             s == save_products(edited, fail)
         IN  IF s.ok
             THEN [cat |-> s.cat, success |-> TRUE, error |-> ""]
             ELSE [cat |-> load_products(after_failed_save(s.cat, slow), TRUE).cat,
                   success |-> FALSE, error |-> "save_failed"]

-----------------------------------------------------------------------------
(* Customer wallet service and ledger: customer_ops.py *)

get_wallet_balance(w, customer_id) ==
    IF customer_id \in DOMAIN w THEN w[customer_id].balance ELSE 0

log_customer_transaction_stale(ctx, customer_id, transaction_type, amount, balance_after) ==
    [ctx EXCEPT ![customer_id] =
        Append(@, [id |-> Len(@) + 1, type |-> transaction_type,
                   amount |-> amount,
                   balance_after |-> IF transaction_type = "add"
                                     THEN balance_after - amount
                                     ELSE balance_after + amount])]

log_customer_transaction(ctx, customer_id, transaction_type, amount, balance_after) ==
    [ctx EXCEPT ![customer_id] =
        Append(@, [id |-> Len(@) + 1, type |-> transaction_type,
                   amount |-> amount, balance_after |-> balance_after])]

update_wallet_balance_credits(w, ctx, customer_id, amount) ==
    IF customer_id \in DOMAIN w
    THEN LET new_balance == w[customer_id].balance - amount
             transaction_type == IF amount > 0 THEN "add" ELSE "withdraw"
         IN  [wallets |-> [w EXCEPT ![customer_id].balance = new_balance],
              ctx |-> log_customer_transaction(ctx, customer_id, transaction_type,
                                               Abs(amount), new_balance),
              found |-> TRUE, balance |-> new_balance]
    ELSE [wallets |-> w, ctx |-> ctx, found |-> FALSE, balance |-> 0]

update_wallet_balance(w, ctx, customer_id, amount) ==
    IF customer_id \in DOMAIN w
    THEN LET new_balance == w[customer_id].balance + amount
             transaction_type == IF amount > 0 THEN "add" ELSE "withdraw"
         IN  [wallets |-> [w EXCEPT ![customer_id].balance = new_balance],
              ctx |-> log_customer_transaction(ctx, customer_id, transaction_type,
                                               Abs(amount), new_balance),
              found |-> TRUE, balance |-> new_balance]
    ELSE [wallets |-> w, ctx |-> ctx, found |-> FALSE, balance |-> 0]

update_customer_purchase(cs, customer_id, amount) ==
    IF customer_id \in DOMAIN cs
    THEN [cs EXCEPT ![customer_id] =
            [@ EXCEPT !.total_spent = @ + amount,
                      !.purchase_count = @ + 1,
                      !.points = @ + (amount \div 100)]]
    ELSE cs

verify_customer_identity(cs, customer_id, form_matches) ==
    customer_id \in DOMAIN cs /\ form_matches

verify_card_information(w, customer_id, form_matches) ==
    customer_id \in DOMAIN w /\ form_matches

get_loyalty_tier_gold_first(points) ==
    IF points >= 1000 THEN "gold"
    ELSE IF points >= 2000 THEN "diamond"
    ELSE IF points >= 500 THEN "silver"
    ELSE IF points >= 100 THEN "bronze"
    ELSE "none"

get_loyalty_tier(points) ==
    IF points >= 2000 THEN "diamond"
    ELSE IF points >= 1000 THEN "gold"
    ELSE IF points >= 500 THEN "silver"
    ELSE IF points >= 100 THEN "bronze"
    ELSE "none"

get_customer(cs, customer_id) ==
    [points |-> cs[customer_id].points,
     loyalty_tier |-> get_loyalty_tier(cs[customer_id].points)]

(* Accounts.  An email is a sequence of letters, each in lower or upper    *)
(* case; a password hash is told apart from the password and differs for   *)
(* different passwords.                                                    *)

lower(email) == [i \in DOMAIN email |-> [email[i] EXCEPT !.upper = FALSE]]

hash_password(password) == <<"sha256", password>>

get_next_customer_id(cs) ==
    IF DOMAIN cs = {}
    THEN 1
    ELSE (CHOOSE m \in DOMAIN cs : \A c \in DOMAIN cs : c <= m) + 1

setup_customer_wallet(w, customer_id) ==
    (customer_id :> [balance |-> WalletBonus]) @@ w

register_customer_case_sensitive(cs, w, email, password, setup_wallet) ==
    IF \E c \in DOMAIN cs : cs[c].email = email
    THEN [customers |-> cs, wallets |-> w, success |-> FALSE,
          error |-> "already_registered", customer_id |-> 0]
    ELSE LET customer_id == get_next_customer_id(cs)
             customer == [email |-> lower(email),
                          password |-> hash_password(password),
                          total_spent |-> 0, purchase_count |-> 0, points |-> 0]
         IN  [customers |-> (customer_id :> customer) @@ cs,
              wallets |-> IF setup_wallet THEN setup_customer_wallet(w, customer_id)
                          ELSE w,
              success |-> TRUE, error |-> "", customer_id |-> customer_id]

register_customer(cs, w, email, password, setup_wallet) ==
    IF \E c \in DOMAIN cs : lower(cs[c].email) = lower(email)
    THEN [customers |-> cs, wallets |-> w, success |-> FALSE,
          error |-> "already_registered", customer_id |-> 0]
    ELSE LET customer_id == get_next_customer_id(cs)
             customer == [email |-> lower(email),
                          password |-> hash_password(password),
                          total_spent |-> 0, purchase_count |-> 0, points |-> 0]
         IN  [customers |-> (customer_id :> customer) @@ cs,
              wallets |-> IF setup_wallet THEN setup_customer_wallet(w, customer_id)
                          ELSE w,
              success |-> TRUE, error |-> "", customer_id |-> customer_id]

remove_customer_wallet(w, customer_id) ==
    [c \in DOMAIN w \ {customer_id} |-> w[c]]

delete_customer_account_unchecked(cs, w, customer_id, confirm_password) ==
    IF customer_id \notin DOMAIN cs
    THEN [customers |-> cs, wallets |-> w, success |-> FALSE,
          error |-> "not_found"]
    ELSE [customers |-> [c \in DOMAIN cs \ {customer_id} |-> cs[c]],
          wallets |-> remove_customer_wallet(w, customer_id),
          success |-> TRUE, error |-> ""]

delete_customer_account(cs, w, customer_id, confirm_password) ==
    IF customer_id \notin DOMAIN cs
    THEN [customers |-> cs, wallets |-> w, success |-> FALSE,
          error |-> "not_found"]
    ELSE IF cs[customer_id].password # hash_password(confirm_password)
    THEN [customers |-> cs, wallets |-> w, success |-> FALSE,
          error |-> "incorrect_password"]
    ELSE [customers |-> [c \in DOMAIN cs \ {customer_id} |-> cs[c]],
          wallets |-> remove_customer_wallet(w, customer_id),
          success |-> TRUE, error |-> ""]

-----------------------------------------------------------------------------
(* Admin wallet and global logs: admin_ops.py *)

update_admin_wallet_revenue_on_expense(aw, amount, transaction_type) ==
    LET moved ==
          IF transaction_type = "revenue"
          THEN [aw EXCEPT !.balance = @ + amount, !.total_revenue = @ + amount]
          ELSE IF transaction_type = "expense"
          THEN [aw EXCEPT !.balance = @ - amount, !.total_revenue = @ - amount]
          ELSE aw
    IN  [moved EXCEPT !.total_transactions = @ + 1]

update_admin_wallet(aw, amount, transaction_type) ==
    LET moved ==
          IF transaction_type = "revenue"
          THEN [aw EXCEPT !.balance = @ + amount, !.total_revenue = @ + amount]
          ELSE IF transaction_type = "expense"
          THEN [aw EXCEPT !.balance = @ - amount]
          ELSE aw
    IN  [moved EXCEPT !.total_transactions = @ + 1]

add_revenue_to_admin_as_expense(aw, amount) ==
    update_admin_wallet(aw, amount, "expense")

add_revenue_to_admin(aw, amount) == update_admin_wallet(aw, amount, "revenue")

deduct_admin_balance_as_revenue(aw, amount) ==
    update_admin_wallet(aw, amount, "revenue")

deduct_admin_balance(aw, amount) == update_admin_wallet(aw, amount, "expense")

log_sale_unit_price(s, customer_id, product_id, quantity, unit_price, total_price) ==
    Append(s, [sale_id |-> Len(s) + 1, customer_id |-> customer_id,
               product_id |-> product_id, quantity |-> quantity,
               unit_price |-> unit_price, total_price |-> unit_price])

log_sale(s, customer_id, product_id, quantity, unit_price, total_price) ==
    Append(s, [sale_id |-> Len(s) + 1, customer_id |-> customer_id,
               product_id |-> product_id, quantity |-> quantity,
               unit_price |-> unit_price, total_price |-> total_price])

log_transaction(t, customer_id, amount, transaction_type) ==
    Append(t, [id |-> Len(t) + 1, customer_id |-> customer_id,
               amount |-> amount, type |-> transaction_type])

-----------------------------------------------------------------------------
(* Receipts: write_ops.py.  A receipt folder is modelled by the sequence   *)
(* of receipts written to it.                                              *)

save_purchase_invoice(invoices, customer_id, items, total, write_ok) ==
    IF write_ok
    THEN [invoices |-> Append(invoices, [customer_id |-> customer_id,
                                         items |-> items, total |-> total]),
          filename |-> TRUE]
    ELSE [invoices |-> invoices, filename |-> FALSE]

generate_restock_invoice(invoices, session_items, total_cost, write_ok) ==
    IF write_ok
    THEN Append(invoices, [items |-> session_items, total |-> total_cost])
    ELSE invoices

-----------------------------------------------------------------------------
(* Purchase orchestrator: app.py, purchase().  The state of the stores is  *)
(* passed as a record s with the fields cat, customers, wallets, ctx,      *)
(* admin, sales, trans, pinv and rinv.                                     *)

free_units_half(qty) == qty \div 2

free_units(qty) == qty \div 3

required_units(qty) == qty + free_units(qty)

line_price(cost, qty) == cost * 2 * qty

stock_short_ignoring_free(qty, stock) == qty > stock

stock_short(qty, stock) == required_units(qty) > stock

funds_short_inverted(total, wallet_balance) == total < wallet_balance

funds_short(total, wallet_balance) == total > wallet_balance

RECURSIVE check_stock(_, _, _, _)
check_stock(mem, purchased_items, k, acc) ==
    IF k > Len(purchased_items)
    THEN acc
    ELSE LET product_id == purchased_items[k].pid
             qty == purchased_items[k].qty
         IN  IF product_id \in DOMAIN mem
             THEN IF stock_short(qty, mem[product_id].stock)
                  THEN [acc EXCEPT !.short = TRUE]
                  ELSE LET price == line_price(mem[product_id].cost, qty)
                       IN  check_stock(mem, purchased_items, k + 1,
                              [short |-> FALSE,
                               total |-> acc.total + price,
                               items |-> Append(acc.items,
                                           [name |-> product_id, qty |-> qty,
                                            free |-> free_units(qty),
                                            price |-> price])])
             ELSE check_stock(mem, purchased_items, k + 1, acc)

RECURSIVE deduct_stock_continues(_, _, _, _, _)
deduct_stock_continues(c, purchased_items, k, fail_at, fail) ==
    IF k > Len(purchased_items)
    THEN [cat |-> c, status |-> "ok", line |-> 0]
    ELSE IF purchased_items[k].pid \notin DOMAIN c.mem
    THEN [cat |-> c, status |-> "exception", line |-> k]
    ELSE LET r == update_product_stock(c, purchased_items[k].pid,
                                       -required_units(purchased_items[k].qty),
                                       IF fail_at = k THEN fail ELSE "none")
         IN  IF ~r.success
             THEN [cat |-> deduct_stock_continues(r.cat, purchased_items, k + 1,
                                                  fail_at, fail).cat,
                   status |-> "stock_error", line |-> k]
             ELSE deduct_stock_continues(r.cat, purchased_items, k + 1, fail_at, fail)

RECURSIVE deduct_stock(_, _, _, _, _)
deduct_stock(c, purchased_items, k, fail_at, fail) ==
    IF k > Len(purchased_items)
    THEN [cat |-> c, status |-> "ok", line |-> 0]
    ELSE IF purchased_items[k].pid \notin DOMAIN c.mem
    THEN [cat |-> c, status |-> "exception", line |-> k]
    ELSE LET r == update_product_stock(c, purchased_items[k].pid,
                                       -required_units(purchased_items[k].qty),
                                       IF fail_at = k THEN fail ELSE "none")
         IN  IF ~r.success
             THEN [cat |-> r.cat, status |-> "stock_error", line |-> k]
             ELSE deduct_stock(r.cat, purchased_items, k + 1, fail_at, fail)

RECURSIVE log_sales(_, _, _, _, _)
log_sales(s, customer_id, purchased_items, mem, k) ==
    IF k > Len(purchased_items)
    THEN s
    ELSE LET product_id == purchased_items[k].pid
             qty == purchased_items[k].qty
         IN  IF product_id \in DOMAIN mem
             THEN log_sales(log_sale(s, customer_id, product_id, qty,
                                     mem[product_id].cost * 2,
                                     mem[product_id].cost * 2 * qty),
                            customer_id, purchased_items, mem, k + 1)
             ELSE log_sales(s, customer_id, purchased_items, mem, k + 1)

settle_purchase(s, customer_id, purchased_items, total) ==
    LET w == update_wallet_balance(s.wallets, s.ctx, customer_id, -total)
        ctx2 == IF w.found
                THEN log_customer_transaction(w.ctx, customer_id, "purchase",
                                              total, w.balance)
                ELSE w.ctx
    IN  [s EXCEPT !.wallets = w.wallets,
                  !.customers = update_customer_purchase(@, customer_id, total),
                  !.ctx = ctx2,
                  !.sales = log_sales(@, customer_id, purchased_items, s.cat.mem, 1),
                  !.trans = log_transaction(@, customer_id, total, "revenue"),
                  !.admin = add_revenue_to_admin(@, total)]

purchase_post(s, customer_id, form_matches, purchased_items, fail_at, fail, invoice_ok) ==
    LET wallet_balance == get_wallet_balance(s.wallets, customer_id) IN
    IF ~verify_customer_identity(s.customers, customer_id, form_matches)
    THEN [st |-> s, outcome |-> "verify_failed", total |-> 0]
    ELSE IF ~verify_card_information(s.wallets, customer_id, form_matches)
    THEN [st |-> s, outcome |-> "verify_failed", total |-> 0]
    ELSE IF purchased_items = <<>>
    THEN [st |-> s, outcome |-> "no_items", total |-> 0]
    ELSE
    LET c1 == load_products(s.cat, TRUE).cat
        chk == check_stock(c1.mem, purchased_items, 1,
                           [short |-> FALSE, total |-> 0, items |-> <<>>])
    IN  IF chk.short
        THEN [st |-> [s EXCEPT !.cat = c1], outcome |-> "insufficient_stock",
              total |-> chk.total]
        ELSE IF funds_short(chk.total, wallet_balance)
        THEN [st |-> [s EXCEPT !.cat = c1], outcome |-> "insufficient_funds",
              total |-> chk.total]
        ELSE
        LET d == deduct_stock(c1, purchased_items, 1, fail_at, fail)
            page == load_products(d.cat, TRUE).cat
        IN  IF d.status = "stock_error"
            THEN [st |-> [s EXCEPT !.cat = d.cat], outcome |-> "stock_error",
                  total |-> chk.total, line |-> d.line]
            ELSE IF d.status = "exception"
            THEN [st |-> [s EXCEPT !.cat = page], outcome |-> "exception",
                  total |-> chk.total]
            ELSE
            LET inv == save_purchase_invoice(s.pinv, customer_id, chk.items,
                                             chk.total, invoice_ok)
                s2 == [s EXCEPT !.cat = d.cat, !.pinv = inv.invoices]
            IN  IF inv.filename
                THEN [st |-> settle_purchase(s2, customer_id, purchased_items,
                                             chk.total),
                      outcome |-> "completed", total |-> chk.total]
                ELSE [st |-> [s2 EXCEPT !.cat = page],
                      outcome |-> "invoice_error", total |-> chk.total]

-----------------------------------------------------------------------------
(* Restock orchestrator: app.py, admin_restock() *)

admin_funds_short_inverted(total_cost, balance) == total_cost < balance

admin_funds_short(total_cost, balance) == total_cost > balance

RECURSIVE restock_costs(_, _, _, _)
restock_costs(mem, restock_items, k, acc) ==
    IF k > Len(restock_items)
    THEN acc
    ELSE LET product_id == restock_items[k].pid
             amount == restock_items[k].qty
         IN  IF product_id \in DOMAIN mem
             THEN LET cost == amount * mem[product_id].cost
                  IN  restock_costs(mem, restock_items, k + 1,
                         [missing |-> FALSE,
                          total_cost |-> acc.total_cost + cost,
                          stock_updates |-> Append(acc.stock_updates,
                                              [product_id |-> product_id,
                                               amount |-> amount,
                                               cost |-> cost])])
             ELSE [acc EXCEPT !.missing = TRUE]

RECURSIVE add_stock(_, _, _, _, _)
add_stock(c, stock_updates, k, fail_at, fail) ==
    IF k > Len(stock_updates)
    THEN [cat |-> c, status |-> "ok"]
    ELSE LET r == update_product_stock(c, stock_updates[k].product_id,
                                       stock_updates[k].amount,
                                       IF fail_at = k THEN fail ELSE "none")
         IN  IF ~r.success
             THEN [cat |-> r.cat, status |-> "stock_error"]
             ELSE add_stock(r.cat, stock_updates, k + 1, fail_at, fail)

admin_restock_post(s, vendor_given, restock_items, fail_at, fail, invoice_ok) ==
    IF ~vendor_given
    THEN [st |-> s, outcome |-> "no_vendor", total |-> 0]
    ELSE IF restock_items = <<>>
    THEN [st |-> s, outcome |-> "no_items", total |-> 0]
    ELSE
    LET rc == restock_costs(s.cat.mem, restock_items, 1,
                            [missing |-> FALSE, total_cost |-> 0,
                             stock_updates |-> <<>>])
    IN  IF rc.missing
        THEN [st |-> s, outcome |-> "product_not_found", total |-> 0]
        ELSE IF admin_funds_short(rc.total_cost, s.admin.balance)
        THEN [st |-> s, outcome |-> "insufficient_admin_balance",
              total |-> rc.total_cost]
        ELSE
        LET a == add_stock(s.cat, rc.stock_updates, 1, fail_at, fail) IN
        IF a.status = "stock_error"
        THEN [st |-> [s EXCEPT !.cat = a.cat], outcome |-> "stock_error",
              total |-> rc.total_cost]
        ELSE [st |-> [s EXCEPT
                        !.cat = load_products(a.cat, TRUE).cat,
                        !.admin = deduct_admin_balance(@, rc.total_cost),
                        !.rinv = generate_restock_invoice(@, rc.stock_updates,
                                                          rc.total_cost, invoice_ok)],
              outcome |-> "completed", total |-> rc.total_cost]

-----------------------------------------------------------------------------
(* Wallet page: app.py, wallet() *)

wallet_post(s, customer_id, action, amount) ==
    IF customer_id \notin DOMAIN s.customers
    THEN [st |-> s, outcome |-> "customer_not_found", total |-> 0]
    ELSE IF action = "add"
    THEN LET w == update_wallet_balance(s.wallets, s.ctx, customer_id, amount)
         IN  [st |-> [s EXCEPT !.wallets = w.wallets, !.ctx = w.ctx],
              outcome |-> "added", total |-> amount]
    ELSE IF amount > get_wallet_balance(s.wallets, customer_id)
    THEN [st |-> s, outcome |-> "insufficient_balance", total |-> 0]
    ELSE LET w == update_wallet_balance(s.wallets, s.ctx, customer_id, -amount)
         IN  [st |-> [s EXCEPT !.wallets = w.wallets, !.ctx = w.ctx],
              outcome |-> "withdrawn", total |-> -amount]

-----------------------------------------------------------------------------
(* The state machine *)

Stores ==
    [cat |-> [mem |-> products, file |-> products_file,
              torn |-> products_file_torn, since |-> since_update],
     customers |-> customers, wallets |-> wallets,
     ctx |-> customer_transactions, admin |-> admin_wallet,
     sales |-> sales, trans |-> transactions,
     pinv |-> purchase_invoices, rinv |-> restock_invoices]

(* last keeps the line items of a request that got past its checks; of a  *)
(* request rejected by a check it keeps the number of line items and the   *)
(* total priced before the rejection.                                      *)
Respond(r, op, customer_id, lines, prechecked) ==
    /\ products' = r.st.cat.mem
    /\ products_file' = r.st.cat.file
    /\ products_file_torn' = r.st.cat.torn
    /\ since_update' = r.st.cat.since
    /\ customers' = r.st.customers
    /\ wallets' = r.st.wallets
    /\ customer_transactions' = r.st.ctx
    /\ admin_wallet' = r.st.admin
    /\ sales' = r.st.sales
    /\ transactions' = r.st.trans
    /\ purchase_invoices' = r.st.pinv
    /\ restock_invoices' = r.st.rinv
    /\ nOps' = nOps + 1
    /\ last' = [op |-> op, outcome |-> r.outcome, cid |-> customer_id,
                lines |-> IF r.outcome \in prechecked THEN <<>> ELSE lines,
                nlines |-> Len(lines), amount |-> r.total,
                line |-> IF "line" \in DOMAIN r THEN r.line ELSE 0]
    /\ before' = Stores
    /\ UNCHANGED <<products_lock, threads>>

StartWith(registered) ==
    /\ products = InitialCatalog
    /\ products_file = InitialCatalog
    /\ products_file_torn = FALSE
    /\ since_update = 0
    /\ customers = registered
    /\ wallets = (1 :> [balance |-> WalletBonus])
    /\ customer_transactions = [c \in CustomerIds |-> <<>>]
    /\ admin_wallet = [balance |-> AdminStartBalance, total_revenue |-> 0,
                       total_transactions |-> 0]
    /\ sales = <<>>
    /\ transactions = <<>>
    /\ purchase_invoices = <<>>
    /\ restock_invoices = <<>>
    /\ nOps = 0
    /\ last = [op |-> "start", outcome |-> "", cid |-> 0, lines |-> <<>>,
               nlines |-> 0, amount |-> 0]
    /\ before = Stores
    /\ products_lock = 0
    /\ threads = [t \in Threads |-> [pc |-> "idle"]]

Init == StartWith(InitialCustomers)

Tick ==
    /\ since_update < UpdateInterval
    /\ since_update' = since_update + 1
    /\ UNCHANGED <<products, products_file, products_file_torn, customers, wallets,
                   customer_transactions, admin_wallet, sales, transactions,
                   purchase_invoices, restock_invoices, nOps, last, before,
          products_lock, threads>>

show_products ==
    /\ LET c == load_products(Stores.cat, TRUE).cat
       IN  /\ products' = c.mem
           /\ products_file' = c.file
           /\ products_file_torn' = c.torn
           /\ since_update' = c.since
    /\ last' = [op |-> "show_products", outcome |-> "", cid |-> 0,
                lines |-> <<>>, nlines |-> 0, amount |-> 0]
    /\ before' = Stores
    /\ UNCHANGED <<customers, wallets, customer_transactions, admin_wallet,
                   sales, transactions, purchase_invoices, restock_invoices,
                   nOps, products_lock, threads>>

PurchasePreChecked == {"verify_failed", "no_items", "insufficient_stock",
                       "insufficient_funds"}

RestockPreChecked == {"no_vendor", "no_items", "product_not_found",
                      "insufficient_admin_balance"}

(* The form of a request whose identity check fails is never parsed, and   *)
(* the write failures are drawn only for a request that reaches a write.   *)
purchase ==
    /\ nOps < MaxOps
    /\ \E customer_id \in CustomerIds, form_matches \in BOOLEAN :
         \E purchased_items \in
                IF purchase_post(Stores, customer_id, form_matches, <<>>, 0, "none",
                                 TRUE).outcome = "verify_failed"
                THEN {<<>>} ELSE LineSeqs(PurchaseQtys) :
           LET writes == purchase_post(Stores, customer_id, form_matches,
                                       purchased_items, 0, "none", TRUE).outcome
                            \notin PurchasePreChecked
           IN  \E fail_at \in IF writes THEN 0..Len(purchased_items) ELSE {0},
                  invoice_ok \in IF writes THEN BOOLEAN ELSE {TRUE} :
                 \E fail \in IF fail_at = 0 THEN {"none"} ELSE SaveFailures :
                 Respond(purchase_post(Stores, customer_id, form_matches,
                                       purchased_items, fail_at, fail, invoice_ok),
                         "purchase", customer_id, purchased_items,
                         PurchasePreChecked)

admin_restock ==
    /\ nOps < MaxOps
    /\ \E vendor_given \in BOOLEAN :
         \E restock_items \in IF vendor_given THEN LineSeqs(RestockQtys) ELSE {<<>>} :
           LET writes == admin_restock_post(Stores, vendor_given, restock_items,
                                            0, "none", TRUE).outcome
                            \notin RestockPreChecked
           IN  \E fail_at \in IF writes THEN 0..Len(restock_items) ELSE {0},
                  invoice_ok \in IF writes THEN BOOLEAN ELSE {TRUE} :
                 \E fail \in IF fail_at = 0 THEN {"none"} ELSE SaveFailures :
                 Respond(admin_restock_post(Stores, vendor_given, restock_items,
                                            fail_at, fail, invoice_ok),
                         "restock", 0, restock_items, RestockPreChecked)

wallet ==
    /\ nOps < MaxOps
    /\ \E customer_id \in CustomerIds, action \in {"add", "withdraw"},
          amount \in WalletAmounts :
            Respond(wallet_post(Stores, customer_id, action, amount),
                    "wallet_" \o action, customer_id, <<>>, {})

Next ==
    \/ Tick
    \/ show_products
    \/ purchase
    \/ admin_restock
    \/ wallet

Spec == Init /\ [][Next]_vars

-----------------------------------------------------------------------------
(* The catalog operations on their own: the admin's product pages and a    *)
(* direct call of update_product_stock.  The add and edit forms submit any *)
(* integer stock and a cost; a direct caller of update_product may pass    *)
(* any field of a product.                                                 *)

ProductForms == [stock : {-5, 4}, cost : {50}]

ProductEdits ==
    ProductForms \cup {[id |-> 2], [price |-> 7], [cost |-> 50, price |-> 7]}

StockChanges == {-20, -3, 5}

CatalogRespond(r, op, product_id, arg) ==
    /\ products' = r.cat.mem
    /\ products_file' = r.cat.file
    /\ products_file_torn' = r.cat.torn
    /\ since_update' = r.cat.since
    /\ nOps' = nOps + 1
    /\ last' = [op |-> op, outcome |-> IF r.success THEN "ok" ELSE r.error,
                pid |-> product_id, arg |-> arg, ret |-> r]
    /\ before' = Stores
    /\ UNCHANGED <<customers, wallets, customer_transactions, admin_wallet,
                   sales, transactions, purchase_invoices, restock_invoices,
                   products_lock, threads>>

admin_add_product ==
    /\ nOps < MaxOps
    /\ \E product_data \in ProductForms, fail \in {"none"} \cup SaveFailures :
         CatalogRespond(add_product(Stores.cat, product_data, fail),
                        "add", 0, product_data)

admin_edit_product ==
    /\ nOps < MaxOps
    /\ \E product_id \in DOMAIN products \cup {9}, product_data \in ProductEdits,
          fail \in {"none"} \cup SaveFailures :
         \E slow \in IF fail = "none" THEN {FALSE} ELSE BOOLEAN :
           LET c == load_products(Stores.cat, TRUE).cat IN
           CatalogRespond(IF product_id \in DOMAIN c.mem
                          THEN update_product(c, product_id, product_data, fail, slow)
                          ELSE [cat |-> c, success |-> FALSE, error |-> "not_found"],
                          "update", product_id, product_data)

admin_delete_product ==
    /\ nOps < MaxOps
    /\ \E product_id \in DOMAIN products \cup {9},
          fail \in {"none"} \cup SaveFailures :
         \E slow \in IF fail = "none" THEN {FALSE} ELSE BOOLEAN :
           LET c == load_products(Stores.cat, TRUE).cat IN
           CatalogRespond(IF product_id \in DOMAIN c.mem
                          THEN delete_product(c, product_id, fail, slow)
                          ELSE [cat |-> c, success |-> FALSE, error |-> "not_found"],
                          "soft_delete", product_id, FALSE)

mutate_stock ==
    /\ nOps < MaxOps
    /\ \E product_id \in DOMAIN products \cup {9}, quantity_change \in StockChanges,
          fail \in {"none"} \cup SaveFailures :
         CatalogRespond(update_product_stock(Stores.cat, product_id,
                                             quantity_change, fail),
                        "mutate_stock", product_id, quantity_change)

CatalogNext ==
    \/ Tick
    \/ show_products
    \/ admin_add_product
    \/ admin_edit_product
    \/ admin_delete_product
    \/ mutate_stock

CatalogSpec == Init /\ [][CatalogNext]_vars

-----------------------------------------------------------------------------
(* The account operations on their own: app.py, register() and             *)
(* delete_account().  A session may still name a customer deleted since.   *)

AccountRespond(r, op, customer_id, email, password) ==
    /\ customers' = r.customers
    /\ wallets' = r.wallets
    /\ nOps' = nOps + 1
    /\ last' = [op |-> op, outcome |-> IF r.success THEN "ok" ELSE r.error,
                cid |-> customer_id, email |-> email, password |-> password]
    /\ before' = Stores
    /\ UNCHANGED <<products, products_file, products_file_torn, since_update,
                   customer_transactions, admin_wallet, sales, transactions,
                   purchase_invoices, restock_invoices, products_lock, threads>>

register ==
    /\ nOps < MaxOps
    /\ \E email \in Emails, password \in Passwords, confirm_password \in Passwords,
          setup_wallet \in BOOLEAN :
         LET r == IF password # confirm_password
                  THEN [customers |-> customers, wallets |-> wallets,
                        success |-> FALSE, error |-> "passwords_differ",
                        customer_id |-> 0]
                  ELSE register_customer(customers, wallets, email, password,
                                         setup_wallet)
         IN  AccountRespond(r, "register", r.customer_id, email, password)

delete_account ==
    /\ nOps < MaxOps
    /\ \E customer_id \in DOMAIN customers \cup CustomerIds,
          confirm_password \in Passwords \cup {""}, confirm_deletion \in BOOLEAN :
         LET r == IF confirm_password = "" \/ ~confirm_deletion
                  THEN [customers |-> customers, wallets |-> wallets,
                        success |-> FALSE, error |-> "not_confirmed"]
                  ELSE delete_customer_account(customers, wallets, customer_id,
                                               confirm_password)
         IN  AccountRespond(r, "delete", customer_id, <<>>, confirm_password)

setup_wallet ==
    /\ nOps < MaxOps
    /\ \E customer_id \in DOMAIN customers, fields_given \in BOOLEAN :
         LET r == IF ~fields_given
                  THEN [customers |-> customers, wallets |-> wallets,
                        success |-> FALSE, error |-> "fields_missing"]
                  ELSE [customers |-> customers,
                        wallets |-> setup_customer_wallet(wallets, customer_id),
                        success |-> TRUE, error |-> ""]
         IN  AccountRespond(r, "setup_wallet", customer_id, <<>>, "")

AccountNext ==
    \/ register
    \/ delete_account
    \/ setup_wallet
    \/ wallet

AccountSpec == Init /\ [][AccountNext]_vars

-----------------------------------------------------------------------------
(* The loyalty tier on its own: a customer with any number of points up to *)
(* MaxPoints is looked up.                                                 *)

TierInit ==
    \E points \in 0..MaxPoints :
        StartWith([InitialCustomers EXCEPT ![1].points = points])

customer_dashboard ==
    /\ \E customer_id \in DOMAIN customers :
         last' = [op |-> "dashboard", cid |-> customer_id,
                  customer |-> get_customer(customers, customer_id)]
    /\ UNCHANGED <<products, products_file, products_file_torn, since_update,
                   customers, wallets, customer_transactions, admin_wallet,
                   sales, transactions, purchase_invoices, restock_invoices,
                   nOps, before, products_lock, threads>>

TierNext == customer_dashboard

TierSpec == TierInit /\ [][TierNext]_vars

-----------------------------------------------------------------------------
(* The shop with an admin who delists products: app.py, purchase() and     *)
(* admin_delete_product().                                                 *)

DelistNext ==
    \/ Tick
    \/ admin_delete_product
    \/ purchase

DelistSpec == Init /\ [][DelistNext]_vars

-----------------------------------------------------------------------------
(* update_product_stock run by concurrent request threads: read_ops.py.    *)
(* products_lock is held inside load_products and inside save_products     *)
(* only; the statements between them run unlocked on the shared products   *)
(* dictionary.  A thread holds a reference to the product record it read;  *)
(* a reload replaces the records, so the reference no longer reaches       *)
(* products (attached = FALSE).  Time may pass between any two steps.      *)

Finish(t, success, error) ==
    [threads EXCEPT ![t].pc = "done", ![t].success = success, ![t].error = error]

stock_begin ==
    \E t \in Threads, product_id \in DOMAIN InitialCatalog,
       quantity_change \in StockChanges :
        /\ threads[t].pc = "idle"
        /\ threads' = [threads EXCEPT ![t] =
                          [pc |-> "load", product_id |-> product_id,
                           quantity_change |-> quantity_change,
                           old_stock |-> 0, new_stock |-> 0, attached |-> FALSE,
                           wrote |-> {}, success |-> FALSE, error |-> ""]]
        /\ UNCHANGED <<products, products_file, products_file_torn, since_update,
                       customers, wallets, customer_transactions, admin_wallet,
                       sales, transactions, purchase_invoices, restock_invoices,
                       nOps, last, before, products_lock>>

stock_load ==
    \E t \in Threads :
        /\ threads[t].pc = "load"
        /\ since_update >= MinReloadGap => products_lock = 0
        /\ LET r == load_products(Stores.cat, TRUE)
               reloaded == since_update >= MinReloadGap /\ r.ok
               detached == [u \in Threads |->
                               IF reloaded /\ u # t /\ threads[u].pc = "write"
                               THEN [threads[u] EXCEPT !.attached = FALSE]
                               ELSE threads[u]]
           IN  /\ products' = r.cat.mem
               /\ since_update' = r.cat.since
               /\ threads' = IF r.ok
                             THEN [detached EXCEPT ![t].pc = "read"]
                             ELSE [detached EXCEPT ![t].pc = "done",
                                                   ![t].error = "load_failed"]
        /\ UNCHANGED <<products_file, products_file_torn, customers, wallets,
                       customer_transactions, admin_wallet, sales, transactions,
                       purchase_invoices, restock_invoices, nOps, last, before,
                       products_lock>>

stock_read ==
    \E t \in Threads :
        /\ threads[t].pc = "read"
        /\ LET product_id == threads[t].product_id IN
           IF product_id \notin DOMAIN products
           THEN threads' = Finish(t, FALSE, "not_found")
           ELSE LET old_stock == products[product_id].stock
                    new_stock == old_stock + threads[t].quantity_change
                IN  IF new_stock < 0
                    THEN threads' = Finish(t, FALSE, "insufficient_stock")
                    ELSE threads' = [threads EXCEPT ![t].pc = "write",
                                                    ![t].old_stock = old_stock,
                                                    ![t].new_stock = new_stock,
                                                    ![t].attached = TRUE]
        /\ UNCHANGED <<products, products_file, products_file_torn, since_update,
                       customers, wallets, customer_transactions, admin_wallet,
                       sales, transactions, purchase_invoices, restock_invoices,
                       nOps, last, before, products_lock>>

stock_write ==
    \E t \in Threads :
        /\ threads[t].pc = "write"
        /\ products' = IF threads[t].attached
                       THEN [products EXCEPT ![threads[t].product_id].stock =
                                                threads[t].new_stock]
                       ELSE products
        /\ threads' = [threads EXCEPT ![t].pc = "save"]
        /\ UNCHANGED <<products_file, products_file_torn, since_update,
                       customers, wallets, customer_transactions, admin_wallet,
                       sales, transactions, purchase_invoices, restock_invoices,
                       nOps, last, before, products_lock>>

save_acquire ==
    \E t \in Threads :
        /\ threads[t].pc = "save"
        /\ products_lock = 0
        /\ products_lock' = t
        /\ threads' = [threads EXCEPT ![t].pc = "save_write"]
        /\ UNCHANGED <<products, products_file, products_file_torn, since_update,
                       customers, wallets, customer_transactions, admin_wallet,
                       sales, transactions, purchase_invoices, restock_invoices,
                       nOps, last, before>>

save_write ==
    \E t \in Threads :
        /\ threads[t].pc = "save_write"
        /\ LET c == save_products(Stores.cat, "none").cat
           IN  /\ products_file' = c.file
               /\ products_file_torn' = c.torn
               /\ since_update' = c.since
               /\ threads' = [threads EXCEPT
                                 ![t].pc = "save_reload",
                                 ![t].wrote = {c.file[threads[t].product_id].stock}]
        /\ UNCHANGED <<products, customers, wallets, customer_transactions,
                       admin_wallet, sales, transactions, purchase_invoices,
                       restock_invoices, nOps, last, before, products_lock>>

(* The load_products(force=True) inside save_products: it returns early    *)
(* within MinReloadGap of the timestamp save_products has just set, and    *)
(* otherwise waits for products_lock, which its own thread holds.          *)
save_reload ==
    \E t \in Threads :
        /\ threads[t].pc = "save_reload"
        /\ IF since_update < MinReloadGap
           THEN /\ products_lock' = 0
                /\ threads' = Finish(t, TRUE, "")
           ELSE /\ products_lock' = products_lock
                /\ threads' = [threads EXCEPT ![t].pc = "blocked"]
        /\ UNCHANGED <<products, products_file, products_file_torn, since_update,
                       customers, wallets, customer_transactions, admin_wallet,
                       sales, transactions, purchase_invoices, restock_invoices,
                       nOps, last, before>>

StockRaceNext ==
    \/ Tick
    \/ stock_begin
    \/ stock_load
    \/ stock_read
    \/ stock_write
    \/ save_acquire
    \/ save_write
    \/ save_reload

StockRaceSpec == Init /\ [][StockRaceNext]_vars

-----------------------------------------------------------------------------
(* purchase() run by concurrent request threads: app.py.  wallets.json has *)
(* no lock: update_wallet_balance reads the whole file, changes one        *)
(* balance and writes the whole file back, and another request can run     *)
(* between the read and the write.  The catalog steps of each request are  *)
(* taken whole here; StockRaceSpec interleaves them.                       *)

RaceOrders == {<<[pid |-> 2, qty |-> 5]>>, <<[pid |-> 1, qty |-> 6]>>}

Reject(t, outcome) == [threads EXCEPT ![t].pc = "done", ![t].outcome = outcome]

buy_begin ==
    \E t \in Threads, customer_id \in CustomerIds, purchased_items \in RaceOrders :
        /\ threads[t].pc = "idle"
        /\ threads' = [threads EXCEPT ![t] =
                          [pc |-> "check", cid |-> customer_id,
                           items |-> purchased_items,
                           wallet_balance |-> get_wallet_balance(wallets, customer_id),
                           total |-> 0, priced |-> <<>>, snapshot |-> <<>>,
                           outcome |-> ""]]
        /\ UNCHANGED <<products, products_file, products_file_torn, since_update,
                       customers, wallets, customer_transactions, admin_wallet,
                       sales, transactions, purchase_invoices, restock_invoices,
                       nOps, last, before, products_lock>>

buy_check ==
    \E t \in Threads :
        /\ threads[t].pc = "check"
        /\ LET me == threads[t]
               c1 == load_products(Stores.cat, TRUE).cat
               chk == check_stock(c1.mem, me.items, 1,
                                  [short |-> FALSE, total |-> 0, items |-> <<>>])
           IN  IF \/ ~verify_customer_identity(customers, me.cid, TRUE)
                  \/ ~verify_card_information(wallets, me.cid, TRUE)
               THEN /\ threads' = Reject(t, "verify_failed")
                    /\ UNCHANGED <<products, since_update>>
               ELSE /\ products' = c1.mem
                    /\ since_update' = c1.since
                    /\ threads' =
                         IF chk.short
                         THEN Reject(t, "insufficient_stock")
                         ELSE IF funds_short(chk.total, me.wallet_balance)
                         THEN Reject(t, "insufficient_funds")
                         ELSE [threads EXCEPT ![t].pc = "deduct",
                                              ![t].total = chk.total,
                                              ![t].priced = chk.items]
        /\ UNCHANGED <<products_file, products_file_torn, customers, wallets,
                       customer_transactions, admin_wallet, sales, transactions,
                       purchase_invoices, restock_invoices, nOps, last, before,
                       products_lock>>

buy_deduct ==
    \E t \in Threads :
        /\ threads[t].pc = "deduct"
        /\ LET me == threads[t]
               d == deduct_stock(Stores.cat, me.items, 1, 0, "none")
               inv == save_purchase_invoice(purchase_invoices, me.cid, me.priced,
                                            me.total, TRUE)
           IN  /\ products' = d.cat.mem
               /\ products_file' = d.cat.file
               /\ products_file_torn' = d.cat.torn
               /\ since_update' = d.cat.since
               /\ IF d.status = "ok"
                  THEN /\ purchase_invoices' = inv.invoices
                       /\ threads' = [threads EXCEPT ![t].pc = "debit_read"]
                  ELSE /\ purchase_invoices' = purchase_invoices
                       /\ threads' = Reject(t, d.status)
        /\ UNCHANGED <<customers, wallets, customer_transactions, admin_wallet,
                       sales, transactions, restock_invoices, nOps, last, before,
                       products_lock>>

buy_debit_read ==
    \E t \in Threads :
        /\ threads[t].pc = "debit_read"
        /\ threads' = [threads EXCEPT ![t].pc = "debit_write",
                                      ![t].snapshot = wallets]
        /\ UNCHANGED <<products, products_file, products_file_torn, since_update,
                       customers, wallets, customer_transactions, admin_wallet,
                       sales, transactions, purchase_invoices, restock_invoices,
                       nOps, last, before, products_lock>>

buy_debit_write ==
    \E t \in Threads :
        /\ threads[t].pc = "debit_write"
        /\ LET me == threads[t]
               w == update_wallet_balance(me.snapshot, customer_transactions,
                                          me.cid, -me.total)
           IN  /\ wallets' = w.wallets
               /\ customer_transactions' = w.ctx
               /\ threads' = [threads EXCEPT ![t].pc = "log",
                                             ![t].snapshot = w.wallets]
        /\ UNCHANGED <<products, products_file, products_file_torn, since_update,
                       customers, admin_wallet, sales, transactions,
                       purchase_invoices, restock_invoices, nOps, last, before,
                       products_lock>>

buy_log ==
    \E t \in Threads :
        /\ threads[t].pc = "log"
        /\ LET me == threads[t] IN
           /\ customers' = update_customer_purchase(customers, me.cid, me.total)
           /\ customer_transactions' =
                 log_customer_transaction(customer_transactions, me.cid, "purchase",
                                          me.total, me.snapshot[me.cid].balance)
           /\ sales' = log_sales(sales, me.cid, me.items, products, 1)
           /\ transactions' = log_transaction(transactions, me.cid, me.total,
                                              "revenue")
           /\ admin_wallet' = add_revenue_to_admin(admin_wallet, me.total)
           /\ threads' = Reject(t, "completed")
        /\ UNCHANGED <<products, products_file, products_file_torn, since_update,
                       wallets, purchase_invoices, restock_invoices, nOps, last,
                       before, products_lock>>

PurchaseRaceNext ==
    \/ Tick
    \/ buy_begin
    \/ buy_check
    \/ buy_deduct
    \/ buy_debit_read
    \/ buy_debit_write
    \/ buy_log

PurchaseRaceSpec == Init /\ [][PurchaseRaceNext]_vars

-----------------------------------------------------------------------------
(* Vocabulary of the properties.  Every property compares the stores as    *)
(* the last request found them (before) with the stores as it left them.   *)

PurchaseDone == last.op = "purchase" /\ last.outcome = "completed"

RestockDone == last.op = "restock" /\ last.outcome = "completed"

(* The catalog a handler works on once its forced reload has run. *)
SeenCatalog == IF before.cat.since >= MinReloadGap /\ ~before.cat.torn
               THEN before.cat.file
               ELSE before.cat.mem

NonNegativeStock(catalog) == \A p \in DOMAIN catalog : catalog[p].stock >= 0

RECURSIVE UnitsTaken(_, _, _)
UnitsTaken(lines, p, k) ==
    IF k > Len(lines) THEN 0
    ELSE (IF lines[k].pid = p THEN lines[k].qty + lines[k].qty \div 3 ELSE 0)
         + UnitsTaken(lines, p, k + 1)

RECURSIVE UnitsAdded(_, _, _)
UnitsAdded(lines, p, k) ==
    IF k > Len(lines) THEN 0
    ELSE (IF lines[k].pid = p THEN lines[k].qty ELSE 0)
         + UnitsAdded(lines, p, k + 1)

RECURSIVE PriceOf(_, _, _)
PriceOf(lines, catalog, k) ==
    IF k > Len(lines) THEN 0
    ELSE (IF lines[k].pid \in DOMAIN catalog
          THEN lines[k].qty * 2 * catalog[lines[k].pid].cost ELSE 0)
         + PriceOf(lines, catalog, k + 1)

RECURSIVE CostOf(_, _, _)
CostOf(lines, catalog, k) ==
    IF k > Len(lines) THEN 0
    ELSE (IF lines[k].pid \in DOMAIN catalog
          THEN lines[k].qty * catalog[lines[k].pid].cost ELSE 0)
         + CostOf(lines, catalog, k + 1)

(* Nothing a request can write has changed; the in-memory catalog may have *)
(* been refreshed from products.json.                                      *)
NothingWritten ==
    /\ products_file = before.cat.file
    /\ products_file_torn = before.cat.torn
    /\ products \in {before.cat.mem, before.cat.file}
    /\ customers = before.customers
    /\ wallets = before.wallets
    /\ customer_transactions = before.ctx
    /\ admin_wallet = before.admin
    /\ sales = before.sales
    /\ transactions = before.trans
    /\ purchase_invoices = before.pinv
    /\ restock_invoices = before.rinv

-----------------------------------------------------------------------------
(* C1: after a purchase or restock request that was reported successful,   *)
(* on a catalog whose stocks were all non-negative, every product's stock  *)
(* is non-negative, in memory and in products.json.                        *)
C1_StockNeverNegative ==
    ((PurchaseDone \/ RestockDone)
        /\ NonNegativeStock(before.cat.mem) /\ NonNegativeStock(before.cat.file))
    => (NonNegativeStock(products) /\ NonNegativeStock(products_file))

C1_Witness ==
    /\ PurchaseDone
    /\ before.admin.balance < AdminStartBalance
    /\ \E p \in DOMAIN products : products[p].stock < before.cat.mem[p].stock

(* C2: a purchase that gets past the checks had, for every line of a known *)
(* product, qty + qty \div 3 units in stock; a purchase stopped by a check  *)
(* leaves every stock, both wallets and all logs as they were.             *)
C2_ShortLineRejectsWholePurchase ==
    last.op = "purchase" =>
        IF last.outcome \in PurchasePreChecked
        THEN NothingWritten
        ELSE \A k \in DOMAIN last.lines :
                last.lines[k].pid \in DOMAIN SeenCatalog =>
                    last.lines[k].qty + last.lines[k].qty \div 3
                        <= SeenCatalog[last.lines[k].pid].stock

C2_Witness ==
    /\ last.op = "purchase"
    /\ last.outcome = "insufficient_stock"
    /\ last.nlines = 2
    /\ last.amount > 0

(* C3: a purchase that gets past the checks had a total price within the   *)
(* wallet balance; a purchase rejected for insufficient funds changes no   *)
(* stock, wallet, admin wallet field, ledger entry, sale record or receipt.*)
C3_OverBalanceRejected ==
    last.op = "purchase" =>
        /\ last.outcome = "insufficient_funds" => NothingWritten
        /\ last.outcome \notin PurchasePreChecked =>
              PriceOf(last.lines, SeenCatalog, 1)
                  <= get_wallet_balance(before.wallets, last.cid)

C3_Witness ==
    /\ last.op = "purchase"
    /\ last.outcome = "insufficient_funds"
    /\ last.amount > get_wallet_balance(before.wallets, last.cid)

(* C4: a completed purchase takes qty + qty \div 3 units of stock for each   *)
(* line, grants qty \div 3 free units on the receipt and charges            *)
(* qty * 2 * cost; 6 units at cost 100 from a balance of 5000 give 2 free  *)
(* units, 8 units less stock, a charge of 1200 and a balance of 3800.      *)
C4_BonusUnitsAndCharge ==
    PurchaseDone =>
        LET receipt == purchase_invoices[Len(purchase_invoices)]
            paid == before.wallets[last.cid].balance - wallets[last.cid].balance
        IN  /\ \A p \in DOMAIN SeenCatalog :
                  /\ products[p].stock
                        = SeenCatalog[p].stock - UnitsTaken(last.lines, p, 1)
                  /\ products_file[p].stock = products[p].stock
            /\ paid = PriceOf(last.lines, SeenCatalog, 1)
            /\ Len(receipt.items) = Len(last.lines)
            /\ \A k \in DOMAIN last.lines :
                  /\ receipt.items[k].qty = last.lines[k].qty
                  /\ receipt.items[k].free = last.lines[k].qty \div 3
                  /\ receipt.items[k].price
                        = last.lines[k].qty * 2 * SeenCatalog[last.lines[k].pid].cost
            /\ (/\ last.lines = <<[pid |-> 1, qty |-> 6]>>
                /\ SeenCatalog[1].cost = 100
                /\ before.wallets[last.cid].balance = 5000)
               => /\ receipt.items[1].free = 2
                  /\ products[1].stock = SeenCatalog[1].stock - 8
                  /\ paid = 1200
                  /\ wallets[last.cid].balance = 3800

C4_Witness ==
    /\ PurchaseDone
    /\ last.lines = <<[pid |-> 1, qty |-> 6]>>
    /\ before.wallets[last.cid].balance = 5000
    /\ wallets[last.cid].balance = 3800
    /\ before.cat.mem[1].stock = 10
    /\ products[1].stock = 2

C6_OneLedgerEntryPerPurchase ==
    PurchaseDone =>
        Len(customer_transactions[last.cid]) = Len(before.ctx[last.cid]) + 1

C8_RestockSettlement ==
    RestockDone =>
        /\ \A p \in DOMAIN SeenCatalog :
              /\ products[p].stock
                    = SeenCatalog[p].stock + UnitsAdded(last.lines, p, 1)
              /\ products_file[p].stock = products[p].stock
        /\ admin_wallet.balance
              = before.admin.balance - CostOf(last.lines, before.cat.mem, 1)
        /\ admin_wallet.total_transactions = before.admin.total_transactions + 1
        /\ (/\ last.lines = <<[pid |-> 1, qty |-> 10]>>
            /\ before.cat.mem[1].cost = 100
            /\ before.admin.balance = 50000)
           => /\ admin_wallet.balance = 49000
              /\ products[1].stock = SeenCatalog[1].stock + 10

C8_Witness ==
    /\ RestockDone
    /\ last.lines = <<[pid |-> 1, qty |-> 10]>>
    /\ before.admin.balance = 50000
    /\ admin_wallet.balance = 49000
    /\ products[1].stock = 20

(* C9: a restock that gets past the checks had a total cost within the     *)
(* admin wallet balance; a restock rejected for insufficient admin balance *)
(* raises no stock and leaves the admin wallet as it was.                  *)
C9_RestockOverBalanceRejected ==
    last.op = "restock" =>
        /\ last.outcome = "insufficient_admin_balance" =>
              NothingWritten /\ products = before.cat.mem
        /\ last.outcome \notin RestockPreChecked =>
              CostOf(last.lines, before.cat.mem, 1) <= before.admin.balance

C9_Witness ==
    /\ last.op = "restock"
    /\ last.outcome = "insufficient_admin_balance"
    /\ last.nlines = 2
    /\ last.amount > before.admin.balance

(* C10: the admin wallet changes only by the revenue credit of a completed *)
(* purchase or the expense debit of a completed restock; either adds 1 to  *)
(* total_transactions; total_revenue grows by the credited amount on a     *)
(* revenue credit and is unchanged by an expense debit.                    *)
C10_AdminWalletMutations ==
    /\ admin_wallet # before.admin =>
          \/ /\ PurchaseDone
             /\ admin_wallet =
                  [balance |-> before.admin.balance
                                   + PriceOf(last.lines, SeenCatalog, 1),
                   total_revenue |-> before.admin.total_revenue
                                   + PriceOf(last.lines, SeenCatalog, 1),
                   total_transactions |-> before.admin.total_transactions + 1]
          \/ /\ RestockDone
             /\ admin_wallet =
                  [balance |-> before.admin.balance
                                   - CostOf(last.lines, before.cat.mem, 1),
                   total_revenue |-> before.admin.total_revenue,
                   total_transactions |-> before.admin.total_transactions + 1]
    /\ (PurchaseDone \/ RestockDone) =>
          admin_wallet.total_transactions = before.admin.total_transactions + 1

C10_Witness ==
    /\ RestockDone
    /\ before.admin.total_revenue > 0
    /\ admin_wallet.total_revenue = before.admin.total_revenue
    /\ admin_wallet.balance < before.admin.balance

-----------------------------------------------------------------------------
(* Properties of the catalog operations, checked under CatalogSpec *)

(* The forced load that opens a catalog operation fails: products.json is  *)
(* torn and the load is not throttled.                                     *)
LoadFailed == before.cat.since >= MinReloadGap /\ before.cat.torn

FileUntouched ==
    products_file = before.cat.file /\ products_file_torn = before.cat.torn

(* C11 as stated: mutate_stock rejects an unknown product and a change     *)
(* that would make the stock negative, leaving the catalog in memory and   *)
(* on disk unchanged; otherwise it sets the stock to old_stock + delta,    *)
(* persists it and returns success with old_stock and new_stock.           *)
C11_MutateStockAlwaysSucceeds ==
    last.op = "mutate_stock" =>
        IF last.pid \notin DOMAIN SeenCatalog
        THEN /\ last.outcome = "not_found"
             /\ products = before.cat.mem /\ FileUntouched
        ELSE LET old_stock == SeenCatalog[last.pid].stock IN
             IF old_stock + last.arg < 0
             THEN /\ last.outcome = "insufficient_stock"
                  /\ products = before.cat.mem /\ FileUntouched
             ELSE /\ last.outcome = "ok"
                  /\ products[last.pid].stock = old_stock + last.arg
                  /\ products_file = products
                  /\ last.ret.old_stock = old_stock
                  /\ last.ret.new_stock = old_stock + last.arg

(* C11 amended: once its forced load has succeeded, mutate_stock rejects   *)
(* an unknown product and a change that would make the stock negative,     *)
(* leaving products.json unchanged and the in-memory catalog as the load   *)
(* left it; otherwise it sets the stock to old_stock + delta and either    *)
(* persists it and returns success with old_stock and new_stock, or, when  *)
(* persisting fails, restores the in-memory stock and reports failure.     *)
(* When the forced load fails it reports failure and changes nothing.      *)
C11_MutateStockOutcome ==
    last.op = "mutate_stock" =>
        IF LoadFailed
        THEN /\ last.outcome = "load_failed"
             /\ products = before.cat.mem /\ FileUntouched
        ELSE IF last.pid \notin DOMAIN SeenCatalog
        THEN /\ last.outcome = "not_found"
             /\ products = SeenCatalog /\ FileUntouched
        ELSE LET old_stock == SeenCatalog[last.pid].stock IN
             IF old_stock + last.arg < 0
             THEN /\ last.outcome = "insufficient_stock"
                  /\ products = SeenCatalog /\ FileUntouched
             ELSE \/ /\ last.outcome = "ok"
                     /\ products = [SeenCatalog EXCEPT
                                      ![last.pid].stock = old_stock + last.arg]
                     /\ products_file = products /\ ~products_file_torn
                     /\ last.ret.old_stock = old_stock
                     /\ last.ret.new_stock = old_stock + last.arg
                  \/ /\ last.outcome = "save_failed"
                     /\ products = SeenCatalog

C11_Witness ==
    /\ last.op = "mutate_stock"
    /\ last.outcome = "save_failed"
    /\ last.arg = -3
    /\ products[last.pid].stock = before.cat.mem[last.pid].stock

(* C12: when persisting fails in add, update, soft_delete or mutate_stock,  *)
(* the operation reports failure and the in-memory catalog is again what   *)
(* it was before the edit, however recently the catalog was loaded.        *)
C12_FailedPersistDiscardsEdit ==
    (last.op \in {"add", "update", "soft_delete", "mutate_stock"}
        /\ last.outcome = "save_failed")
    => products \in {before.cat.mem, SeenCatalog}

(* C13: a forced load always refreshes the in-memory catalog from          *)
(* products.json, so that on return the in-memory catalog equals the       *)
(* stored one, however short the time since the previous load or save.     *)
C13_ForcedLoadRefreshes ==
    (last.op = "show_products" /\ ~before.cat.torn) => products = products_file

(* C14: a save that reports failure leaves products.json identical to what *)
(* it was before the call; a save that reports success leaves              *)
(* products.json a complete copy of the in-memory catalog, and the         *)
(* in-memory catalog equal to it on return.                                *)
C14_SaveAllOrNothing ==
    last.op \in {"add", "update", "soft_delete", "mutate_stock"} =>
        /\ last.outcome = "save_failed" => FileUntouched
        /\ last.outcome = "ok" =>
              products_file = products /\ ~products_file_torn

CatalogOps == {"add", "update", "soft_delete", "mutate_stock"}

MaxStoredId(catalog) ==
    CHOOSE m \in DOMAIN catalog \cup {0} : \A p \in DOMAIN catalog : p <= m

(* C15: after any sequence of add, update, soft_delete and mutate_stock,   *)
(* each record's id equals its storage key (so ids are unique), each       *)
(* successful add returns the greatest stored id + 1 (1 for an empty       *)
(* catalog), which no stored product holds, and no product record is ever  *)
(* removed from storage.                                                   *)
C15_ProductIdsUniqueAndStable ==
    /\ \A p \in DOMAIN products_file : products_file[p].id = p
    /\ \A p \in DOMAIN products : products[p].id = p
    /\ (last.op = "add" /\ last.outcome = "ok") =>
          /\ last.ret.product_id = MaxStoredId(before.cat.file) + 1
          /\ last.ret.product_id \notin DOMAIN before.cat.file
          /\ last.ret.product_id \in DOMAIN products_file
    /\ last.op \in CatalogOps => DOMAIN before.cat.file \subseteq DOMAIN products_file

(* C16: price = 2 * cost holds for a product right after add created it    *)
(* and right after an update that sets its cost.                           *)
C16_PriceTwiceCost ==
    /\ (last.op = "add" /\ last.outcome = "ok") =>
          LET created == products[last.ret.product_id] IN
          /\ created.cost = last.arg.cost
          /\ created.price = 2 * created.cost
          /\ products_file[last.ret.product_id] = created
    /\ (last.op = "update" /\ last.outcome = "ok" /\ "cost" \in DOMAIN last.arg) =>
          /\ products[last.pid].cost = last.arg.cost
          /\ products[last.pid].price = 2 * products[last.pid].cost
          /\ products_file[last.pid] = products[last.pid]

C16_Witness ==
    /\ last.op = "update"
    /\ last.outcome = "ok"
    /\ last.arg = [cost |-> 50, price |-> 7]
    /\ before.cat.mem[last.pid].cost = 100
    /\ products[last.pid].price = 100

(* C17: no catalog operation, the admin's add and edit with any integer    *)
(* stock included, ever leaves a product with a negative stock in memory   *)
(* or in products.json.                                                    *)
C17_CatalogStockNeverNegative ==
    /\ NonNegativeStock(products)
    /\ NonNegativeStock(products_file)

-----------------------------------------------------------------------------
(* Properties of the account operations, checked under AccountSpec *)

(* Two emails are equal ignoring case: the same letters, whatever the case *)
SameIgnoringCase(e1, e2) ==
    /\ DOMAIN e1 = DOMAIN e2
    /\ \A i \in DOMAIN e1 : e1[i].letter = e2[i].letter

(* C18: no two stored customers have emails equal ignoring case, and a     *)
(* registration whose email equals a stored one ignoring case is rejected  *)
(* as already registered and creates no customer and no wallet.            *)
C18_EmailsUniqueIgnoringCase ==
    /\ \A c1, c2 \in DOMAIN customers :
          SameIgnoringCase(customers[c1].email, customers[c2].email) => c1 = c2
    /\ (last.op = "register" /\ last.outcome # "passwords_differ") =>
          IF \E c \in DOMAIN before.customers :
                SameIgnoringCase(before.customers[c].email, last.email)
          THEN /\ last.outcome = "already_registered"
               /\ customers = before.customers
               /\ wallets = before.wallets
          ELSE /\ last.outcome = "ok"
               /\ DOMAIN customers = DOMAIN before.customers \cup {last.cid}
               /\ last.cid \notin DOMAIN before.customers
               /\ SameIgnoringCase(customers[last.cid].email, last.email)

C18_Witness ==
    /\ last.op = "register"
    /\ last.outcome = "already_registered"
    /\ \E c \in DOMAIN customers :
          /\ customers[c].email # last.email
          /\ SameIgnoringCase(customers[c].email, last.email)
    /\ Cardinality(DOMAIN customers) = 3

(* C19: delete_customer_account removes the customer record and its wallet *)
(* if and only if the password given matches the stored hash; with an      *)
(* incorrect password it returns an error and leaves the customer and the  *)
(* wallet records unchanged.                                               *)
C19_DeleteNeedsPassword ==
    (last.op = "delete" /\ last.outcome # "not_confirmed"
        /\ last.cid \in DOMAIN before.customers) =>
        IF before.customers[last.cid].password = <<"sha256", last.password>>
        THEN /\ last.outcome = "ok"
             /\ last.cid \notin DOMAIN customers
             /\ last.cid \notin DOMAIN wallets
             /\ \A c \in DOMAIN before.customers \ {last.cid} :
                   c \in DOMAIN customers /\ customers[c] = before.customers[c]
             /\ \A c \in DOMAIN before.wallets \ {last.cid} :
                   c \in DOMAIN wallets /\ wallets[c] = before.wallets[c]
        ELSE /\ last.outcome = "incorrect_password"
             /\ customers = before.customers
             /\ wallets = before.wallets

C19_Witness ==
    /\ last.op = "delete"
    /\ last.outcome = "incorrect_password"
    /\ last.cid \in DOMAIN before.wallets
    /\ last.cid \in DOMAIN wallets

-----------------------------------------------------------------------------
(* Properties of the loyalty tier, checked under TierSpec *)

TierRank(tier) ==
    CASE tier = "none" -> 0
      [] tier = "bronze" -> 1
      [] tier = "silver" -> 2
      [] tier = "gold" -> 3
      [] tier = "diamond" -> 4

(* C20: the tier is decided by the points alone, in the bands 0-99 none,   *)
(* 100-499 bronze, 500-999 silver, 1000-1999 gold, 2000 and more diamond,  *)
(* and it never decreases as the points increase.                          *)
C20_TierBandsMonotonic ==
    last.op = "dashboard" =>
        LET p == last.customer.points
            tier == last.customer.loyalty_tier
        IN  /\ p = customers[last.cid].points
            /\ (p \in 0..99) => tier = "none"
            /\ (p \in 100..499) => tier = "bronze"
            /\ (p \in 500..999) => tier = "silver"
            /\ (p \in 1000..1999) => tier = "gold"
            /\ (p >= 2000) => tier = "diamond"
            /\ \A q \in 0..MaxPoints :
                  p <= q => TierRank(tier) <= TierRank(get_loyalty_tier(q))

C20_Witness ==
    /\ last.op = "dashboard"
    /\ last.customer.points = 2000
    /\ last.customer.loyalty_tier = "diamond"

-----------------------------------------------------------------------------
(* Properties of the order of the steps of a purchase, checked under Spec *)

(* C21: a purchase runs stock deduction, then the wallet debit and the     *)
(* admin credit, then logging, then the receipt; so a purchase whose       *)
(* receipt could not be written has not left stock deducted while the      *)
(* customer wallet is undebited.                                           *)
C21_ReceiptFailureAfterDebit ==
    (last.op = "purchase" /\ last.outcome = "invoice_error") =>
        \/ \A p \in DOMAIN products : products[p].stock = SeenCatalog[p].stock
        \/ wallets[last.cid].balance < before.wallets[last.cid].balance

(* C22: a purchase that stops at a failed stock deduction of line k has    *)
(* deducted exactly the lines before k, and has written nothing else: no   *)
(* wallet, ledger, sale record, transaction or receipt has changed.        *)
C22_FailedDeductionAborts ==
    (last.op = "purchase" /\ last.outcome = "stock_error") =>
        /\ customers = before.customers
        /\ wallets = before.wallets
        /\ customer_transactions = before.ctx
        /\ admin_wallet = before.admin
        /\ sales = before.sales
        /\ transactions = before.trans
        /\ purchase_invoices = before.pinv
        /\ restock_invoices = before.rinv
        /\ last.line \in 1..Len(last.lines)
        /\ \A p \in DOMAIN products :
              products[p].stock = SeenCatalog[p].stock
                    - UnitsTaken(SubSeq(last.lines, 1, last.line - 1), p, 1)
        /\ products_file_torn \/ products_file = products

C22_Witness ==
    /\ last.op = "purchase"
    /\ last.outcome = "stock_error"
    /\ last.line = 2
    /\ products[last.lines[1].pid].stock < SeenCatalog[last.lines[1].pid].stock

RECURSIVE SaleTotal(_, _)
SaleTotal(s, k) ==
    IF k > Len(s) THEN 0 ELSE s[k].total_price + SaleTotal(s, k + 1)

RECURSIVE RevenueTotal(_, _)
RevenueTotal(t, k) ==
    IF k > Len(t) THEN 0
    ELSE (IF t[k].type = "revenue" THEN t[k].amount ELSE 0) + RevenueTotal(t, k + 1)

RECURSIVE PurchaseDebits(_, _)
PurchaseDebits(entries, k) ==
    IF k > Len(entries) THEN 0
    ELSE (IF entries[k].type = "purchase" THEN entries[k].amount ELSE 0)
         + PurchaseDebits(entries, k + 1)

RECURSIVE DebitedByPurchases(_, _)
DebitedByPurchases(ctx, ids) ==
    IF ids = {} THEN 0
    ELSE LET c == CHOOSE x \in ids : TRUE
         IN  PurchaseDebits(ctx[c], 1) + DebitedByPurchases(ctx, ids \ {c})

C30_UnknownLineRejectedBeforeMutation ==
    (last.op = "purchase"
        /\ \E k \in DOMAIN last.lines : last.lines[k].pid \notin DOMAIN SeenCatalog)
    => NothingWritten

-----------------------------------------------------------------------------
(* Properties of purchases of delisted products, checked under DelistSpec *)

(* C29: a purchase with a line for a product that a successful            *)
(* soft_delete has marked inactive, in memory and in products.json, is     *)
(* rejected: it does not complete, and the stock of that product stays as  *)
(* it was.                                                                 *)
C29_DelistedProductNotSold ==
    last.op = "purchase" =>
        \A k \in DOMAIN last.lines :
            LET p == last.lines[k].pid
            IN  (/\ p \in DOMAIN before.cat.mem /\ ~before.cat.mem[p].is_active
                 /\ p \in DOMAIN before.cat.file /\ ~before.cat.file[p].is_active) =>
                    /\ last.outcome # "completed"
                    /\ products[p].stock = SeenCatalog[p].stock

-----------------------------------------------------------------------------
(* Properties of wallets and customer ids over the account operations,     *)
(* checked under AccountSpec                                               *)

(* C26: the balance of a wallet that exists changes only together with a   *)
(* new entry in its customer's ledger; setting up the wallet again does    *)
(* not put the balance back to the bonus amount.                           *)
C26_BalanceChangeHasLedgerEntry ==
    \A c \in DOMAIN before.wallets \cap DOMAIN wallets :
        wallets[c].balance # before.wallets[c].balance =>
            /\ last.op # "setup_wallet"
            /\ c \in DOMAIN customer_transactions
            /\ Len(customer_transactions[c]) > Len(before.ctx[c])

(* C27: a registration never returns an id that a deleted customer held,   *)
(* so the customer it creates has an empty ledger and no sale records.     *)
C27_CustomerIdNeverReassigned ==
    (last.op = "register" /\ last.outcome = "ok") =>
        /\ ~(last.cid \in DOMAIN InitialCustomers /\ last.cid \notin DOMAIN before.customers)
        /\ last.cid \in DOMAIN customer_transactions => customer_transactions[last.cid] = <<>>
        /\ \A k \in DOMAIN sales : sales[k].customer_id # last.cid

-----------------------------------------------------------------------------
(* Properties of concurrent catalog mutators, checked under StockRaceSpec *)

Succeeded(t) == threads[t].pc = "done" /\ threads[t].success

(* C23: when two concurrent mutate_stock calls on the same product have    *)
(* both reported success, the persisted stock is the initial stock plus    *)
(* both deltas, and each call's reported new_stock is a value that the     *)
(* persisted stock has taken.                                              *)
C23_NoLostStockUpdate ==
    \A t, u \in Threads :
        (t # u /\ Succeeded(t) /\ Succeeded(u)
              /\ threads[t].product_id = threads[u].product_id) =>
            LET p == threads[t].product_id
            IN  /\ products_file[p].stock
                      = InitialCatalog[p].stock + threads[t].quantity_change
                                                + threads[u].quantity_change
                /\ threads[t].new_stock \in threads[t].wrote \cup threads[u].wrote

(* C25: save_products always returns: the reload it makes while holding    *)
(* products_lock never waits for that lock, however much time has passed   *)
(* since save_products set the timestamp.                                  *)
C25_SaveNeverBlocksOnItsOwnLock ==
    \A t \in Threads : ~(threads[t].pc = "blocked" /\ products_lock = t)

-----------------------------------------------------------------------------
(* Properties of concurrent purchases, checked under PurchaseRaceSpec *)

Completed(t) == threads[t].pc = "done" /\ threads[t].outcome = "completed"

(* C24: two concurrent purchases of one customer are held back only by     *)
(* the funds check against the balance each read when it started: each     *)
(* that completes had a total within that balance, and once both have      *)
(* completed the wallet holds the opening balance less both totals, which  *)
(* may be negative, or less only one of them.  The witness is the          *)
(* interleaving in which both pass the check on the same balance and the   *)
(* balance ends negative or with one debit lost.                           *)
C24_ConcurrentPurchasesRace ==
    /\ \A t \in Threads : Completed(t) => threads[t].total <= threads[t].wallet_balance
    /\ \A t, u \in Threads :
          (t # u /\ Completed(t) /\ Completed(u) /\ threads[t].cid = threads[u].cid) =>
              wallets[threads[t].cid].balance \in
                  {WalletBonus - threads[t].total - threads[u].total,
                   WalletBonus - threads[t].total,
                   WalletBonus - threads[u].total}

C24_Witness ==
    /\ \A t \in Threads : Completed(t) /\ threads[t].cid = threads[1].cid
    /\ threads[1].wallet_balance = threads[2].wallet_balance
    /\ \A t \in Threads : threads[t].total > 0 /\ threads[t].total <= threads[t].wallet_balance
    /\ \/ wallets[threads[1].cid].balance < 0
       \/ wallets[threads[1].cid].balance \in
              {WalletBonus - threads[1].total, WalletBonus - threads[2].total}

====
